---- MODULE Spec2Model ----
(***************************************************************************)
(* Model of pkg/authconfigmap: the store that edits the aws-auth ConfigMap *)
(* (keys mapRoles, mapUsers, mapAccounts) and saves it with create or      *)
(* update.  The model follows the current definitions of                   *)
(* authconfigmap.go (the ones that work on iam.Identity / iam.ARN); of the *)
(* earlier definitions in the same file it has MapIdentity, the only       *)
(* classification of ARNs the file defines, and MapIdentities.Get.         *)
(*                                                                         *)
(* Strings that the code takes apart (ARNs) are sequences of tokens, with  *)
(* ":" and "/" as separator tokens, so that splitting and joining are      *)
(* computed.  Account ids are sequences of digits, compared lexically as   *)
(* Go compares strings.                                                    *)
(***************************************************************************)
EXTENDS Integers, Sequences, FiniteSets, TLC

VARIABLES
    cm,       \* Spec: the ConfigMap held by one AuthConfigMap (a.cm)
    last,     \* Spec: the latest store call: operation, arguments, error, a.cm before it
    prev,     \* Spec: the call before the latest one, when the two are an add and a call on the same list
    remote,   \* SpecSave, SpecE2E: the aws-auth ConfigMap in the cluster (or absent)
    strict,   \* SpecSave, SpecE2E: TRUE when the transport rejects stale updates
    acm,      \* SpecSave, SpecE2E: per caller, the ConfigMap held by its AuthConfigMap
    pc,       \* SpecSave, SpecE2E: per caller, whether it holds a usable store
    call,     \* SpecSave, SpecE2E: per caller, what its calls did so far
    script    \* SpecE2E: the record of the end-to-end run and the step it is at;
              \* SpecClassify: the ARN string at hand and what Role() and User() say

vars == <<cm, last, prev, remote, strict, acm, pc, call, script>>

(***************************************************************************)
(* Bounds of the model.                                                    *)
(***************************************************************************)
MaxIdentities == 3     \* AddIdentity is not taken on a longer identity list
MaxStoredAccounts == 4 \* accounts in a stored mapAccounts SpecAccounts starts from
MaxSaves == 3          \* Save calls of one caller on the store it holds
MaxStored == 2         \* records in a stored mapRoles the model starts from

(***************************************************************************)
(* Strings.                                                                *)
(***************************************************************************)
RECURSIVE IndexOf(_, _, _)
IndexOf(s, sep, i) ==
    IF i > Len(s) THEN 0
    ELSE IF s[i] = sep THEN i
    ELSE IndexOf(s, sep, i + 1)

\* strings.Split(s, sep): always at least one portion
RECURSIVE Split(_, _)
Split(s, sep) ==
    LET i == IndexOf(s, sep, 1) IN
    IF i = 0 THEN <<s>>
    ELSE <<SubSeq(s, 1, i - 1)>> \o Split(SubSeq(s, i + 1, Len(s)), sep)

RECURSIVE Join(_, _)
Join(parts, sep) ==
    IF Len(parts) = 0 THEN <<>>
    ELSE IF Len(parts) = 1 THEN parts[1]
    ELSE parts[1] \o <<sep>> \o Join(Tail(parts), sep)

\* Go's < on strings, for digit strings
RECURSIVE LexLess(_, _)
LexLess(a, b) ==
    IF Len(b) = 0 THEN FALSE
    ELSE IF Len(a) = 0 THEN TRUE
    ELSE IF a[1] # b[1] THEN a[1] < b[1]
    ELSE LexLess(Tail(a), Tail(b))

RECURSIVE SelectIdx(_, _, _)
\* the elements of s at the indices of keep, in order
SelectIdx(s, keep, i) ==
    IF i > Len(s) THEN <<>>
    ELSE (IF i \in keep THEN <<s[i]>> ELSE <<>>) \o SelectIdx(s, keep, i + 1)

(***************************************************************************)
(* Package iam: ARN, Parse, Identity.                                      *)
(***************************************************************************)
ParseError == "arn: not enough sections"

\* iam.Parse: splits on ":", fails on fewer than six segments
Parse(raw) ==
    LET portions == Split(raw, ":") IN
    IF Len(portions) < 6
    THEN [err |-> ParseError, portions |-> <<>>]
    ELSE [err |-> "", portions |-> portions]

\* ARN.String: the canonical form
String(arn) == Join(arn.portions, ":")

\* the resource-type: the sixth colon segment up to its first "/"
ResourceType(arn) == Split(arn.portions[6], "/")[1]

Role(arn) == ResourceType(arn) = <<"role">>

User(arn) == ResourceType(arn) = <<"user">>

\* Identity.ARN(): the parsed principal of a record, or an error
IdentityARN(identity) == Parse(identity.arn)

\* Identity.Valid(): the principal parses and is a role or a user
Valid(identity) ==
    LET a == IdentityARN(identity) IN
    IF a.err # "" THEN a.err
    ELSE IF Role(a) \/ User(a) THEN ""
    ELSE "arn is neither user nor role"

(***************************************************************************)
(* MapIdentity: the classification that authconfigmap.go itself defines,   *)
(* on the ARN string of a record.                                          *)
(***************************************************************************)
\* MapIdentity.resource(): the sixth colon portion, "" for a malformed ARN
resource(raw) ==
    LET portions == Split(raw, ":") IN
    IF Len(portions) < 6 THEN <<>> ELSE portions[6]

\* MapIdentity.Role()
MapIdentityRole(raw) == resource(raw) = <<"role">>

\* MapIdentity.User()
MapIdentityUser(raw) == resource(raw) = <<"user">>

(***************************************************************************)
(* sigs.k8s.io/yaml on the three keys.  The text of a key is               *)
(*   kind "empty"   : the key is missing (Data[key] is "")                 *)
(*   kind "null"    : "null\n", what a nil slice marshals to               *)
(*   kind "seq"     : a YAML sequence of the items                         *)
(*   kind "garbage" : text that is not a sequence                          *)
(***************************************************************************)
EmptyText == [kind |-> "empty", items |-> <<>>]
NullText == [kind |-> "null", items |-> <<>>]
GarbageText == [kind |-> "garbage", items |-> <<>>]
SeqText(items) == [kind |-> "seq", items |-> items]

\* yaml.Unmarshal into a slice
Unmarshal(text) ==
    IF text.kind = "garbage" THEN [err |-> "yaml: cannot unmarshal", val |-> <<>>]
    ELSE [err |-> "", val |-> text.items]

\* yaml.Marshal of a slice that is never nil
Marshal(slice) == SeqText(slice)

\* yaml.Marshal of a slice declared with var: nil until something is appended
MarshalNilable(slice) == IF Len(slice) = 0 THEN NullText ELSE SeqText(slice)

(***************************************************************************)
(* The ConfigMap and the store.                                            *)
(***************************************************************************)
rolesData == "mapRoles"
usersData == "mapUsers"
accountsData == "mapAccounts"
DataKeys == {rolesData, usersData, accountsData}

NoData == [k \in DataKeys |-> EmptyText]

\* ObjectMeta(): name and namespace, no UID, no resource version
ObjectMeta == [Name |-> "aws-auth", UID |-> "", ResourceVersion |-> 0]

\* New(client, cm) with cm == nil, and with cm.Data == nil
NewCM == [meta |-> ObjectMeta, nilData |-> FALSE, Data |-> NoData]

\* accounts()
accounts(c) == Unmarshal(c.Data[accountsData])

\* setAccounts that stores the text under mapRoles
setAccountsUnderRoles(c, accs) ==
    [err |-> "", cm |-> [c EXCEPT !.Data[rolesData] = Marshal(accs)]]

\* setAccounts(accounts) after AddAccount: the slice comes from List(), never nil
setAccounts(c, accs) ==
    [err |-> "", cm |-> [c EXCEPT !.Data[accountsData] = Marshal(accs)]]

\* setAccounts(newaccounts) after RemoveAccount: newaccounts is nil when empty
setAccountsNilable(c, accs) ==
    [err |-> "", cm |-> [c EXCEPT !.Data[accountsData] = MarshalNilable(accs)]]

RECURSIVE InsertSorted(_, _)
InsertSorted(s, a) ==
    IF Len(s) = 0 THEN <<a>>
    ELSE IF a = s[1] THEN s
    ELSE IF LexLess(a, s[1]) THEN <<a>> \o s
    ELSE <<s[1]>> \o InsertSorted(Tail(s), a)

\* sets.NewString(accounts...).List(): distinct and sorted
RECURSIVE SortedList(_)
SortedList(s) ==
    IF Len(s) = 0 THEN <<>>
    ELSE InsertSorted(SortedList(SubSeq(s, 1, Len(s) - 1)), s[Len(s)])

\* AddAccount without the List() call: the account is appended and nothing else
AddAccountOpAppends(c, account) ==
    LET got == accounts(c) IN
    IF got.err # "" THEN [err |-> got.err, cm |-> c]
    ELSE setAccounts(c, Append(got.val, account))

RECURSIVE InsertKeepingDuplicates(_, _)
InsertKeepingDuplicates(s, a) ==
    IF Len(s) = 0 THEN <<a>>
    ELSE IF LexLess(s[1], a) THEN <<s[1]>> \o InsertKeepingDuplicates(Tail(s), a)
    ELSE <<a>> \o s

RECURSIVE SortedKeepingDuplicates(_)
SortedKeepingDuplicates(s) ==
    IF Len(s) = 0 THEN <<>>
    ELSE InsertKeepingDuplicates(SortedKeepingDuplicates(SubSeq(s, 1, Len(s) - 1)), s[Len(s)])

\* AddAccount with sort.Strings in place of the string set: sorted, duplicates kept
AddAccountOpSortsOnly(c, account) ==
    LET got == accounts(c) IN
    IF got.err # "" THEN [err |-> got.err, cm |-> c]
    ELSE setAccounts(c, SortedKeepingDuplicates(Append(got.val, account)))

\* AddAccount(account)
AddAccountOp(c, account) ==
    LET got == accounts(c) IN
    IF got.err # "" THEN [err |-> got.err, cm |-> c]
    ELSE setAccounts(c, SortedList(Append(got.val, account)))

\* RemoveAccount that writes the key before it looks at found
RemoveAccountOpWritesFirst(c, account) ==
    LET got == accounts(c)
        keep == {i \in 1..Len(got.val) : got.val[i] # account}
        found == \E i \in 1..Len(got.val) : got.val[i] = account
        written == setAccountsNilable(c, SelectIdx(got.val, keep, 1))
    IN
    IF got.err # "" THEN [err |-> got.err, cm |-> c]
    ELSE IF ~found THEN [err |-> "account not found in auth ConfigMap", cm |-> written.cm]
    ELSE written

\* RemoveAccount without the continue: the matching account is appended as well
RemoveAccountOpKeepsMatch(c, account) ==
    LET got == accounts(c)
        found == \E i \in 1..Len(got.val) : got.val[i] = account
    IN
    IF got.err # "" THEN [err |-> got.err, cm |-> c]
    ELSE IF ~found THEN [err |-> "account not found in auth ConfigMap", cm |-> c]
    ELSE setAccountsNilable(c, got.val)

\* RemoveAccount that puts what remains through the string set, as AddAccount does
RemoveAccountOpNormalizes(c, account) ==
    LET got == accounts(c)
        keep == {i \in 1..Len(got.val) : got.val[i] # account}
        found == \E i \in 1..Len(got.val) : got.val[i] = account
    IN
    IF got.err # "" THEN [err |-> got.err, cm |-> c]
    ELSE IF ~found THEN [err |-> "account not found in auth ConfigMap", cm |-> c]
    ELSE setAccountsNilable(c, SortedList(SelectIdx(got.val, keep, 1)))

\* RemoveAccount(account)
RemoveAccountOp(c, account) ==
    LET got == accounts(c)
        keep == {i \in 1..Len(got.val) : got.val[i] # account}
        found == \E i \in 1..Len(got.val) : got.val[i] = account
    IN
    IF got.err # "" THEN [err |-> got.err, cm |-> c]
    ELSE IF ~found THEN [err |-> "account not found in auth ConfigMap", cm |-> c]
    ELSE setAccountsNilable(c, SelectIdx(got.val, keep, 1))

\* Identities that appends the roles to the users
IdentitiesUsersFirst(c) ==
    LET roles == Unmarshal(c.Data[rolesData])
        users == Unmarshal(c.Data[usersData])
    IN
    IF roles.err # "" THEN [err |-> "unmarshalling mapRoles", val |-> <<>>]
    ELSE IF users.err # "" THEN [err |-> "unmarshalling mapUsers", val |-> <<>>]
    ELSE [err |-> "", val |-> users.val \o roles.val]

\* Identities that takes a key without text for an error
IdentitiesFailsOnMissingKey(c) ==
    LET roles == Unmarshal(c.Data[rolesData])
        users == Unmarshal(c.Data[usersData])
    IN
    IF roles.err # "" \/ c.Data[rolesData].kind = "empty"
    THEN [err |-> "unmarshalling mapRoles", val |-> <<>>]
    ELSE IF users.err # "" \/ c.Data[usersData].kind = "empty"
    THEN [err |-> "unmarshalling mapUsers", val |-> <<>>]
    ELSE [err |-> "", val |-> roles.val \o users.val]

\* Identities(): the records of mapRoles followed by those of mapUsers
Identities(c) ==
    LET roles == Unmarshal(c.Data[rolesData])
        users == Unmarshal(c.Data[usersData])
    IN
    IF roles.err # "" THEN [err |-> "unmarshalling mapRoles", val |-> <<>>]
    ELSE IF users.err # "" THEN [err |-> "unmarshalling mapUsers", val |-> <<>>]
    ELSE [err |-> "", val |-> roles.val \o users.val]

\* the loop of setIdentities: the first record that stops it, or 0
RECURSIVE FirstRejected(_, _)
FirstRejected(identities, i) ==
    IF i > Len(identities) THEN 0
    ELSE LET a == IdentityARN(identities[i]) IN
         IF a.err # "" THEN i
         ELSE IF Role(a) \/ User(a) THEN FirstRejected(identities, i + 1)
         ELSE i

\* setIdentities that leaves a key alone when its list is empty
setIdentitiesSkipsEmpty(c, identities) ==
    LET bad == FirstRejected(identities, 1)
        roles == SelectIdx(identities,
                     {i \in 1..Len(identities) : Role(IdentityARN(identities[i]))}, 1)
        users == SelectIdx(identities,
                     {i \in 1..Len(identities) : User(IdentityARN(identities[i]))}, 1)
    IN
    IF bad # 0
    THEN [err |-> "cannot determine if it refers to a user or role", cm |-> c]
    ELSE [err |-> "",
          cm |-> [c EXCEPT !.Data[rolesData] = IF roles = <<>> THEN @ ELSE Marshal(roles),
                           !.Data[usersData] = IF users = <<>> THEN @ ELSE Marshal(users)]]

\* setIdentities that leaves a record under the key it was read from, and
\* classifies only the records that are new
setIdentitiesKeepsStoredSplit(c, identities) ==
    LET bad == FirstRejected(identities, 1)
        wasRole == {Unmarshal(c.Data[rolesData]).val[i] :
                        i \in 1..Len(Unmarshal(c.Data[rolesData]).val)}
        wasUser == {Unmarshal(c.Data[usersData]).val[i] :
                        i \in 1..Len(Unmarshal(c.Data[usersData]).val)}
        toRoles == {i \in 1..Len(identities) :
                        \/ identities[i] \in wasRole
                        \/ identities[i] \notin wasUser /\ Role(IdentityARN(identities[i]))}
    IN
    IF bad # 0
    THEN [err |-> "cannot determine if it refers to a user or role", cm |-> c]
    ELSE [err |-> "",
          cm |-> [c EXCEPT !.Data[rolesData] = Marshal(SelectIdx(identities, toRoles, 1)),
                           !.Data[usersData] =
                               Marshal(SelectIdx(identities,
                                                 (1..Len(identities)) \ toRoles, 1))]]

\* setIdentities without the default case: a record that is neither a role nor
\* a user goes to neither list, and nothing is reported
setIdentitiesDropsUnknown(c, identities) ==
    LET roles == SelectIdx(identities,
                     {i \in 1..Len(identities) :
                         IdentityARN(identities[i]).err = ""
                           /\ Role(IdentityARN(identities[i]))}, 1)
        users == SelectIdx(identities,
                     {i \in 1..Len(identities) :
                         IdentityARN(identities[i]).err = ""
                           /\ User(IdentityARN(identities[i]))}, 1)
    IN
    [err |-> "",
     cm |-> [c EXCEPT !.Data[rolesData] = Marshal(roles),
                      !.Data[usersData] = Marshal(users)]]

\* setIdentities that writes mapRoles before it has looked at every record: on
\* a record it rejects, the roles before that record are already stored
setIdentitiesWritesAsItGoes(c, identities) ==
    LET bad == FirstRejected(identities, 1)
        upto == IF bad = 0 THEN Len(identities) ELSE bad - 1
        roles == SelectIdx(identities,
                     {i \in 1..upto : Role(IdentityARN(identities[i]))}, 1)
        users == SelectIdx(identities,
                     {i \in 1..upto : User(IdentityARN(identities[i]))}, 1)
    IN
    IF bad # 0
    THEN [err |-> "cannot determine if it refers to a user or role",
          cm |-> [c EXCEPT !.Data[rolesData] = Marshal(roles)]]
    ELSE [err |-> "",
          cm |-> [c EXCEPT !.Data[rolesData] = Marshal(roles),
                           !.Data[usersData] = Marshal(users)]]

\* setIdentities(identities)
setIdentities(c, identities) ==
    LET bad == FirstRejected(identities, 1)
        roles == SelectIdx(identities,
                     {i \in 1..Len(identities) : Role(IdentityARN(identities[i]))}, 1)
        users == SelectIdx(identities,
                     {i \in 1..Len(identities) : User(IdentityARN(identities[i]))}, 1)
    IN
    IF bad # 0
    THEN [err |-> IF IdentityARN(identities[bad]).err # ""
                  THEN IdentityARN(identities[bad]).err
                  ELSE "cannot determine if it refers to a user or role",
          cm |-> c]
    ELSE [err |-> "",
          cm |-> [c EXCEPT !.Data[rolesData] = Marshal(roles),
                           !.Data[usersData] = Marshal(users)]]

\* AddIdentity that does not add a principal that is already mapped
AddIdentityOpNoDuplicates(c, identity) ==
    LET got == Identities(c) IN
    IF got.err # "" THEN [err |-> got.err, cm |-> c]
    ELSE IF Valid(identity) # "" THEN [err |-> Valid(identity), cm |-> c]
    ELSE IF \E i \in 1..Len(got.val) : got.val[i].arn = identity.arn
    THEN setIdentities(c, got.val)
    ELSE setIdentities(c, Append(got.val, identity))

\* AddIdentity(identity)
AddIdentityOp(c, identity) ==
    LET got == Identities(c) IN
    IF got.err # "" THEN [err |-> got.err, cm |-> c]
    ELSE IF Valid(identity) # "" THEN [err |-> Valid(identity), cm |-> c]
    ELSE setIdentities(c, Append(got.val, identity))

\* the loop of RemoveIdentity without the return at the first match
RECURSIVE RemoveLoopNoReturn(_, _, _, _, _, _)
RemoveLoopNoReturn(c, identities, arn, all, i, newidentities) ==
    IF i > Len(identities)
    THEN IF ~all /\ Len(newidentities) = Len(identities)
         THEN [err |-> "instance identity ARN not found in auth ConfigMap", cm |-> c]
         ELSE setIdentities(c, newidentities)
    ELSE LET a == IdentityARN(identities[i]) IN
         IF a.err # "" THEN [err |-> a.err, cm |-> c]
         ELSE IF String(a) = String(arn)
         THEN RemoveLoopNoReturn(c, identities, arn, all, i + 1, newidentities)
         ELSE RemoveLoopNoReturn(c, identities, arn, all, i + 1,
                                 Append(newidentities, identities[i]))

\* the loop of RemoveIdentity from index i on: newidentities is the slice built so far
RECURSIVE RemoveLoop(_, _, _, _, _, _)
RemoveLoop(c, identities, arn, all, i, newidentities) ==
    IF i > Len(identities)
    THEN IF ~all
         THEN [err |-> "instance identity ARN not found in auth ConfigMap", cm |-> c]
         ELSE setIdentities(c, newidentities)
    ELSE LET a == IdentityARN(identities[i]) IN
         IF a.err # "" THEN [err |-> a.err, cm |-> c]
         ELSE IF String(a) = String(arn)
         THEN IF ~all
              THEN setIdentities(c, SubSeq(identities, 1, i - 1)
                                      \o SubSeq(identities, i + 1, Len(identities)))
              ELSE RemoveLoop(c, identities, arn, all, i + 1, newidentities)
         ELSE IF all
              THEN RemoveLoop(c, identities, arn, all, i + 1,
                              Append(newidentities, identities[i]))
              ELSE RemoveLoop(c, identities, arn, all, i + 1, newidentities)

\* RemoveIdentity that reports not-found also when all is true
RemoveIdentityOpAlwaysNotFound(c, arn, all) ==
    LET got == Identities(c) IN
    IF got.err # "" THEN [err |-> got.err, cm |-> c]
    ELSE IF \A i \in 1..Len(got.val) : got.val[i].arn # Join(arn.portions, ":")
    THEN [err |-> "instance identity ARN not found in auth ConfigMap", cm |-> c]
    ELSE RemoveLoop(c, got.val, arn, all, 1, <<>>)

\* RemoveIdentity that takes every call as one with all = true
RemoveIdentityOpRemovesAll(c, arn, all) ==
    LET got == Identities(c) IN
    IF got.err # "" THEN [err |-> got.err, cm |-> c]
    ELSE RemoveLoop(c, got.val, arn, TRUE, 1, <<>>)

\* RemoveIdentity(arn, all)
RemoveIdentityOp(c, arn, all) ==
    LET got == Identities(c) IN
    IF got.err # "" THEN [err |-> got.err, cm |-> c]
    ELSE RemoveLoop(c, got.val, arn, all, 1, <<>>)

(***************************************************************************)
(* The cluster behind client (v1.ConfigMapInterface) and Save.             *)
(* The cluster holds at most one aws-auth ConfigMap.  A call of the client *)
(* that fails returns, besides the error, an object that is not the one    *)
(* passed in: the typed client returns an empty ConfigMap (no name, no     *)
(* UID, Data nil), the fake client returns nil.  New() provides for both.  *)
(***************************************************************************)
NoRemote == [exists |-> FALSE, cm |-> NewCM]

\* &corev1.ConfigMap{}: what the typed client returns along with an error
EmptyCM ==
    [meta |-> [Name |-> "", UID |-> "", ResourceVersion |-> 0],
     nilData |-> TRUE, Data |-> NoData]

\* client.Create(obj)
ClusterCreate(rem, obj, fault) ==
    IF fault THEN [err |-> "transport failure", remote |-> rem, obj |-> EmptyCM]
    ELSE IF obj.meta.Name = ""
    THEN [err |-> "invalid: name is required", remote |-> rem, obj |-> EmptyCM]
    ELSE IF rem.exists
    THEN [err |-> "already exists", remote |-> rem, obj |-> EmptyCM]
    ELSE LET made == [obj EXCEPT !.meta.UID = "uid-1", !.meta.ResourceVersion = 1]
         IN [err |-> "", remote |-> [exists |-> TRUE, cm |-> made], obj |-> made]

\* client.Update(obj); a strict transport rejects an outdated UID or version
ClusterUpdate(rem, obj, strictMode, fault) ==
    IF fault THEN [err |-> "transport failure", remote |-> rem, obj |-> EmptyCM]
    ELSE IF ~rem.exists
    THEN [err |-> "not found", remote |-> rem, obj |-> EmptyCM]
    ELSE IF strictMode /\ (obj.meta.UID # rem.cm.meta.UID
                            \/ obj.meta.ResourceVersion # rem.cm.meta.ResourceVersion)
    THEN [err |-> "conflict", remote |-> rem, obj |-> EmptyCM]
    ELSE LET made == [obj EXCEPT !.meta.UID = rem.cm.meta.UID,
                                 !.meta.ResourceVersion = rem.cm.meta.ResourceVersion + 1]
         IN [err |-> "", remote |-> [exists |-> TRUE, cm |-> made], obj |-> made]

\* client.Get(ObjectName)
ClusterGet(rem, fault) ==
    IF fault THEN [err |-> "transport failure", obj |-> EmptyCM]
    ELSE IF ~rem.exists THEN [err |-> "not found", obj |-> EmptyCM]
    ELSE [err |-> "", obj |-> rem.cm]

\* New(client, cm): a nil cm or a cm without Data becomes a new ConfigMap
New(obj, isNil) ==
    IF isNil THEN NewCM
    ELSE IF obj.nilData THEN [obj EXCEPT !.meta = ObjectMeta, !.nilData = FALSE, !.Data = NoData]
    ELSE obj

\* NewFromClientSet(clientSet): not-found is fine, any other error is fatal
NewFromClientSetOp(rem, fault, nilOnErr) ==
    LET got == ClusterGet(rem, fault) IN
    IF got.err # "" /\ got.err # "not found"
    THEN [err |-> "getting auth ConfigMap", held |-> FALSE, cm |-> NewCM]
    ELSE [err |-> "", held |-> TRUE, cm |-> New(got.obj, got.err # "" /\ nilOnErr)]

\* Save that always creates
SaveOpAlwaysCreates(held, rem, strictMode, fault) ==
    [kind |-> "create"] @@ ClusterCreate(rem, held, fault)

\* Save that refuses to update from a version that is not the cluster's
SaveOpRefusesStale(held, rem, strictMode, fault) ==
    IF held.meta.UID = ""
    THEN [kind |-> "create"] @@ ClusterCreate(rem, held, fault)
    ELSE [kind |-> "update"] @@ ClusterUpdate(rem, held, TRUE, fault)

\* Save that updates with the resource version cleared: the update is unconditional
SaveOpClearsVersion(held, rem, strictMode, fault) ==
    IF held.meta.UID = ""
    THEN [kind |-> "create"] @@ ClusterCreate(rem, held, fault)
    ELSE [kind |-> "update"] @@ ClusterUpdate(rem, held, FALSE, fault)

\* Save that sends a ConfigMap built anew from the metadata it holds, without the data
SaveOpSendsNoData(held, rem, strictMode, fault) ==
    IF held.meta.UID = ""
    THEN [kind |-> "create"] @@ ClusterCreate(rem, [held EXCEPT !.Data = NoData], fault)
    ELSE [kind |-> "update"]
           @@ ClusterUpdate(rem, [held EXCEPT !.Data = NoData], strictMode, fault)

\* Save(): create when the held UID is empty, update otherwise; a.cm becomes
\* whatever the client returned
SaveOp(held, rem, strictMode, fault) ==
    IF held.meta.UID = ""
    THEN [kind |-> "create"] @@ ClusterCreate(rem, held, fault)
    ELSE [kind |-> "update"] @@ ClusterUpdate(rem, held, strictMode, fault)

(***************************************************************************)
(* The values the specifications draw from.                                *)
(***************************************************************************)
NodesRoleARN == <<"arn", ":", "aws", ":", "iam", ":", ":", "123", ":", "role", "/", "nodes">>
AdminRoleARN == <<"arn", ":", "aws", ":", "iam", ":", ":", "123", ":", "role", ":", "admin">>
BobUserARN == <<"arn", ":", "aws", ":", "iam", ":", ":", "123", ":", "user", "/", "bob">>
DevGroupARN == <<"arn", ":", "aws", ":", "iam", ":", ":", "123", ":", "group", "/", "dev">>
ShortARN == <<"arn", ":", "aws", ":", "iam">>

\* RoleNodeGroupUsername and RoleNodeGroupGroups
RoleNodeGroupUsername == "system:node:{{EC2PrivateDNSName}}"
RoleNodeGroupGroups == <<"system:bootstrappers", "system:nodes">>

\* iam.NewIdentity(arn, username, groups)
NewIdentity(raw, username, groups) ==
    [arn |-> raw, username |-> username, groups |-> groups]

NodesRole == NewIdentity(NodesRoleARN, RoleNodeGroupUsername, RoleNodeGroupGroups)
NodesRoleAsAdmin == NewIdentity(NodesRoleARN, "admin", <<"system:masters">>)
AdminRole == NewIdentity(AdminRoleARN, "admin", <<"system:masters">>)
Bob == NewIdentity(BobUserARN, "bob", <<"dev">>)
DevGroup == NewIdentity(DevGroupARN, "dev", <<"dev">>)
Short == NewIdentity(ShortARN, "short", <<>>)
NoIdentity == NewIdentity(<<>>, "", <<>>)

\* records a caller may hand to AddIdentity: valid ones and two that are not
AddableIdentities == {NodesRole, NodesRoleAsAdmin, Bob, DevGroup, Short}
\* records the stored keys may hold: anything that decodes
StoredIdentities == {NodesRole, AdminRole, Bob, DevGroup, Short}
\* principals a caller may ask to remove (an iam.ARN is always a parsed one)
RemovableARNs == {NodesRoleARN, AdminRoleARN, BobUserARN}

Account100 == <<1, 0, 0>>
Account20 == <<2, 0>>
Accounts == {Account100, Account20}

SeqsUpTo(S, n) == UNION {[1..k -> S] : k \in 0..n}

StoredRoles ==
    {EmptyText, GarbageText} \cup {SeqText(s) : s \in SeqsUpTo(StoredIdentities, MaxStored)}
StoredUsers ==
    {EmptyText, GarbageText, SeqText(<<Bob>>), SeqText(<<NodesRole>>)}
StoredAccounts ==
    {EmptyText, GarbageText, SeqText(<<Account100>>),
     SeqText(<<Account20, Account100>>), SeqText(<<Account100, Account100>>)}

FetchedCM(r, u, a) ==
    [meta |-> [Name |-> "aws-auth", UID |-> "uid-1", ResourceVersion |-> 1],
     nilData |-> FALSE,
     Data |-> [k \in DataKeys |-> IF k = rolesData THEN r
                                  ELSE IF k = usersData THEN u ELSE a]]

\* what New() can return: a new ConfigMap, or the fetched one with its data
\* (any mapRoles with two mapUsers and two account lists, and any mapUsers and
\* account list with two mapRoles)
FetchedStores ==
    {NewCM}
    \cup {FetchedCM(r, u, a) : r \in StoredRoles,
                               u \in {EmptyText, SeqText(<<Bob>>)},
                               a \in {EmptyText, SeqText(<<Account20, Account100>>)}}
    \cup {FetchedCM(r, u, a) : r \in {EmptyText, SeqText(<<NodesRole>>)},
                               u \in StoredUsers, a \in StoredAccounts}

NoCall(c) ==
    [op |-> "none", identity |-> NoIdentity, arn |-> <<>>, all |-> FALSE,
     account |-> <<>>, err |-> "", before |-> c]

(***************************************************************************)
(* Spec: the mutations of one store, from any fetched content.             *)
(***************************************************************************)
Init ==
    /\ cm \in FetchedStores
    /\ last = NoCall(cm)
    /\ prev = NoCall(NewCM)
    /\ remote = NoRemote
    /\ strict = FALSE
    /\ acm = <<>>
    /\ pc = <<>>
    /\ call = <<>>
    /\ script = <<>>

\* an add followed by a call on the same list: the pairs the claims speak of
Paired(first, second) ==
    \/ first.op = "AddIdentity" /\ second.op = "RemoveIdentity"
    \/ first.op = "AddAccount" /\ second.op \in {"AddAccount", "RemoveAccount"}

Record(res, entry) ==
    /\ cm' = res.cm
    /\ last' = [entry EXCEPT !.err = res.err, !.before = cm]
    /\ prev' = IF Paired(last, entry) THEN last ELSE NoCall(NewCM)
    /\ UNCHANGED <<remote, strict, acm, pc, call, script>>

AddIdentity(identity) ==
    /\ Len(Identities(cm).val) < MaxIdentities
    /\ Record(AddIdentityOp(cm, identity),
              [NoCall(cm) EXCEPT !.op = "AddIdentity", !.identity = identity])

RemoveIdentity(raw, all) ==
    Record(RemoveIdentityOp(cm, Parse(raw), all),
           [NoCall(cm) EXCEPT !.op = "RemoveIdentity", !.arn = raw, !.all = all])

AddAccount(account) ==
    Record(AddAccountOp(cm, account),
           [NoCall(cm) EXCEPT !.op = "AddAccount", !.account = account])

RemoveAccount(account) ==
    Record(RemoveAccountOp(cm, account),
           [NoCall(cm) EXCEPT !.op = "RemoveAccount", !.account = account])

Next ==
    \/ \E identity \in AddableIdentities : AddIdentity(identity)
    \/ \E raw \in RemovableARNs, all \in BOOLEAN : RemoveIdentity(raw, all)
    \/ \E account \in Accounts : AddAccount(account)
    \/ \E account \in Accounts : RemoveAccount(account)

Spec == Init /\ [][Next]_vars

(***************************************************************************)
(* SpecAccounts: AddAccount and RemoveAccount on one store, from any       *)
(* stored mapAccounts: in any order, with or without duplicates, null,     *)
(* missing, or not a sequence.                                             *)
(***************************************************************************)
Account200 == <<2, 0, 0>>
Account300 == <<3, 0, 0>>
MoreAccounts == {Account100, Account20, Account200, Account300}

StoredAccountLists ==
    {EmptyText, NullText, GarbageText}
    \cup {SeqText(s) : s \in SeqsUpTo(MoreAccounts, MaxStoredAccounts)}

InitAccounts ==
    /\ cm \in {NewCM} \cup {FetchedCM(EmptyText, EmptyText, a) : a \in StoredAccountLists}
    /\ last = NoCall(cm)
    /\ prev = NoCall(NewCM)
    /\ remote = NoRemote
    /\ strict = FALSE
    /\ acm = <<>>
    /\ pc = <<>>
    /\ call = <<>>
    /\ script = <<>>

NextAccounts ==
    \/ \E account \in MoreAccounts : AddAccount(account)
    \/ \E account \in MoreAccounts : RemoveAccount(account)

SpecAccounts == InitAccounts /\ [][NextAccounts]_vars

(***************************************************************************)
(* SpecClassify: Role() and User() of MapIdentity on an ARN string, for    *)
(* ARNs of two to five leading portions followed by a resource in each of  *)
(* the forms that the comment of resource() lists.                         *)
(***************************************************************************)
LeadingPortions ==
    {<<"arn", ":", "aws", ":">>,
     <<"arn", ":", "aws", ":", "iam", ":">>,
     <<"arn", ":", "aws", ":", "iam", ":", ":">>,
     <<"arn", ":", "aws", ":", "iam", ":", ":", "123", ":">>}

ResourceTypes == {"role", "user", "group", "roles"}

ResourceForms(type) ==
    {<<type>>}
    \cup UNION {{<<type, "/", name>>,
                 <<type, ":", name>>,
                 <<type, "/", name, "/", "q">>,
                 <<type, "/", name, ":", "q">>,
                 <<type, ":", name, ":", "q">>} : name \in {"nodes", "bob"}}

ARNStrings ==
    {lead \o res : lead \in LeadingPortions,
                   res \in UNION {ResourceForms(type) : type \in ResourceTypes}}

InitClassify ==
    /\ \E raw \in ARNStrings :
         script = [raw |-> raw, asked |-> FALSE, role |-> FALSE, user |-> FALSE]
    /\ cm = NewCM
    /\ last = NoCall(NewCM)
    /\ prev = NoCall(NewCM)
    /\ remote = NoRemote
    /\ strict = FALSE
    /\ acm = <<>>
    /\ pc = <<>>
    /\ call = <<>>

\* identity.Role() and identity.User(), as setIdentities asks them of a record
Classify ==
    /\ ~script.asked
    /\ script' = [script EXCEPT !.asked = TRUE,
                                !.role = MapIdentityRole(script.raw),
                                !.user = MapIdentityUser(script.raw)]
    /\ UNCHANGED <<cm, last, prev, remote, strict, acm, pc, call>>

NextClassify == Classify

SpecClassify == InitClassify /\ [][NextClassify]_vars

(***************************************************************************)
(* SpecSave: two callers work against one cluster, interleaved.  Each      *)
(* caller runs what AddNodeGroup and RemoveNodeGroup run: it fetches a     *)
(* store, adds or removes its own identity (and returns if that fails),    *)
(* and saves.  A caller may as well add or remove an account, and may call *)
(* Save again on the store it holds.                                       *)
(***************************************************************************)
Callers == {"c1", "c2"}

\* the identity a caller adds or removes
Mine(c) == IF c = "c1" THEN NodesRole ELSE Bob

ExistingCM(r, u) == FetchedCM(r, u, EmptyText)

InitialRemotes ==
    {NoRemote,
     [exists |-> TRUE, cm |-> ExistingCM(SeqText(<<AdminRole>>), EmptyText)],
     [exists |-> TRUE, cm |-> FetchedCM(SeqText(<<NodesRole>>), SeqText(<<Bob>>),
                                        SeqText(<<Account100>>))],
     [exists |-> TRUE, cm |-> ExistingCM(GarbageText, EmptyText)],
     [exists |-> TRUE, cm |-> [ExistingCM(EmptyText, EmptyText) EXCEPT !.nilData = TRUE]]}

\* what a caller did so far: its mutation, its Save calls, and of the latest
\* Save the write it issued, the UID it held, and whether it held an old version
NoCalls ==
    [did |-> "", saves |-> 0, kind |-> "none", err |-> "",
     uidBefore |-> "", created |-> FALSE, createdBefore |-> FALSE,
     stale |-> FALSE, nilHeld |-> FALSE]

InitSave ==
    /\ remote \in InitialRemotes
    /\ strict \in BOOLEAN
    /\ acm = [c \in Callers |-> NewCM]
    /\ pc = [c \in Callers |-> "idle"]
    /\ call = [c \in Callers |-> NoCalls]
    /\ cm = NewCM
    /\ last = NoCall(NewCM)
    /\ prev = NoCall(NewCM)
    /\ script = <<>>

\* acm, err := NewFromClientSet(clientSet)
Fetch(c) ==
    /\ pc[c] = "idle"
    /\ \E fault \in BOOLEAN, nilOnErr \in BOOLEAN :
         LET res == NewFromClientSetOp(remote, fault, nilOnErr) IN
         /\ pc' = [pc EXCEPT ![c] = IF res.held THEN "fetched" ELSE "returned"]
         /\ acm' = [acm EXCEPT ![c] = res.cm]
         /\ call' = [call EXCEPT ![c].err = res.err]
    /\ UNCHANGED <<cm, last, prev, remote, strict, script>>

\* the caller goes on to Save when the mutation succeeded, and returns its error otherwise
Mutated(c, res, what) ==
    /\ acm' = [acm EXCEPT ![c] = res.cm]
    /\ call' = [call EXCEPT ![c].err = res.err, ![c].did = what]
    /\ pc' = [pc EXCEPT ![c] = IF res.err = "" THEN "mutated" ELSE "returned"]

\* acm.AddIdentity(identity), as in AddNodeGroup
CallAddIdentity(c) ==
    /\ pc[c] = "fetched"
    /\ Mutated(c, AddIdentityOp(acm[c], Mine(c)), "add")
    /\ UNCHANGED <<cm, last, prev, remote, strict, script>>

\* acm.RemoveIdentity(arn, false), as in RemoveNodeGroup
CallRemoveIdentity(c) ==
    /\ pc[c] = "fetched"
    /\ Mutated(c, RemoveIdentityOp(acm[c], Parse(Mine(c).arn), FALSE), "remove")
    /\ UNCHANGED <<cm, last, prev, remote, strict, script>>

\* acm.AddAccount(account)
CallAddAccount(c) ==
    /\ pc[c] = "fetched"
    /\ Mutated(c, AddAccountOp(acm[c], Account20), "add account")
    /\ UNCHANGED <<cm, last, prev, remote, strict, script>>

\* acm.RemoveAccount(account)
CallRemoveAccount(c) ==
    /\ pc[c] = "fetched"
    /\ Mutated(c, RemoveAccountOp(acm[c], Account100), "remove account")
    /\ UNCHANGED <<cm, last, prev, remote, strict, script>>

\* acm.Save(); on a nil a.cm (left by a failed Save through the fake client) it panics
Save(c) ==
    /\ pc[c] \in {"mutated", "saved"}
    /\ call[c].saves < MaxSaves
    /\ IF call[c].nilHeld
       THEN /\ pc' = [pc EXCEPT ![c] = "panicked"]
            /\ UNCHANGED <<acm, call, remote>>
       ELSE \E fault \in BOOLEAN, nilOnErr \in BOOLEAN :
              LET res == SaveOp(acm[c], remote, strict, fault) IN
              /\ res.err = "" => ~nilOnErr
              /\ remote' = res.remote
              /\ acm' = [acm EXCEPT ![c] = res.obj]
              /\ pc' = [pc EXCEPT ![c] = "saved"]
              /\ call' = [call EXCEPT ![c] =
                    [@ EXCEPT !.saves = @ + 1,
                              !.kind = res.kind,
                              !.err = res.err,
                              !.uidBefore = acm[c].meta.UID,
                              !.createdBefore = call[c].created,
                              !.created = call[c].created
                                            \/ (res.kind = "create" /\ res.err = ""),
                              !.stale = remote.exists /\
                                  acm[c].meta.ResourceVersion
                                      # remote.cm.meta.ResourceVersion,
                              !.nilHeld = res.err # "" /\ nilOnErr]]
    /\ UNCHANGED <<cm, last, prev, strict, script>>

NextSave ==
    \E c \in Callers :
        \/ Fetch(c)
        \/ CallAddIdentity(c)
        \/ CallRemoveIdentity(c)
        \/ CallAddAccount(c)
        \/ CallRemoveAccount(c)
        \/ Save(c)

SpecSave == InitSave /\ [][NextSave]_vars

(***************************************************************************)
(* SpecNodeGroup: two callers, each running AddNodeGroup or                *)
(* RemoveNodeGroup once, for any instance role ARN, interleaved at the     *)
(* calls of the client.                                                    *)
(***************************************************************************)
\* ng.IAM.InstanceRoleARN
InstanceRoleARNs == {NodesRoleARN, AdminRoleARN, DevGroupARN, ShortARN}

\* the steps of the two functions, in the order of their code
StepsOf(op) ==
    IF op = "AddNodeGroup"
    THEN <<"fetch", "parse", "identity", "mutate", "save">>
    ELSE <<"parse", "fetch", "mutate", "save">>

\* what a call did so far: the steps it ran, the error of the latest one, what
\* the Get of its fetch answered and the store it got, and the writes it issued
NoNodeGroupCall ==
    [op |-> "", arn |-> <<>>, ran |-> <<>>, err |-> "",
     getErr |-> "", found |-> FALSE, fetched |-> NewCM,
     writes |-> 0, kind |-> "none"]

InitNodeGroup ==
    /\ remote \in InitialRemotes
    /\ strict \in BOOLEAN
    /\ acm = [c \in Callers |-> NewCM]
    /\ pc = [c \in Callers |-> "idle"]
    /\ call = [c \in Callers |-> NoNodeGroupCall]
    /\ cm = NewCM
    /\ last = NoCall(NewCM)
    /\ prev = NoCall(NewCM)
    /\ script = <<>>

\* a step returned err: the function returns it, or goes on to its next step
Step(c, stage, err, next) ==
    /\ pc' = [pc EXCEPT ![c] = IF err = "" THEN next ELSE "returned"]
    /\ call' = [call EXCEPT ![c].ran = Append(@, stage), ![c].err = err]

\* acm, err := NewFromClientSet(clientSet), after the steps before, and what
\* the call keeps of it
FetchStep(c, op, raw, before) ==
    \E fault \in BOOLEAN, nilOnErr \in BOOLEAN :
        LET res == NewFromClientSetOp(remote, fault, nilOnErr)
            got == ClusterGet(remote, fault)
        IN
        /\ acm' = [acm EXCEPT ![c] = res.cm]
        /\ pc' = [pc EXCEPT ![c] = IF res.held THEN "fetched" ELSE "returned"]
        /\ call' = [call EXCEPT ![c] =
              [@ EXCEPT !.op = op, !.arn = raw,
                        !.ran = Append(before, "fetch"),
                        !.err = res.err,
                        !.getErr = got.err,
                        !.found = got.err = "",
                        !.fetched = res.cm]]

\* AddNodeGroup: NewFromClientSet
AddNodeGroupFetch(c, raw) ==
    /\ pc[c] = "idle"
    /\ FetchStep(c, "AddNodeGroup", raw, <<>>)
    /\ UNCHANGED <<cm, last, prev, remote, strict, script>>

\* AddNodeGroup: iam.Parse, iam.NewIdentity, acm.AddIdentity
AddNodeGroupAddIdentity(c) ==
    /\ pc[c] = "fetched"
    /\ call[c].op = "AddNodeGroup"
    /\ LET identity == NewIdentity(call[c].arn, RoleNodeGroupUsername, RoleNodeGroupGroups)
           res == AddIdentityOp(acm[c], identity)
       IN
       IF Parse(call[c].arn).err # ""
       THEN /\ pc' = [pc EXCEPT ![c] = "returned"]
            /\ call' = [call EXCEPT ![c].ran = Append(@, "parse"),
                                    ![c].err = Parse(call[c].arn).err]
            /\ UNCHANGED acm
       ELSE IF Valid(identity) # ""
       THEN /\ pc' = [pc EXCEPT ![c] = "returned"]
            /\ call' = [call EXCEPT ![c].ran = @ \o <<"parse", "identity">>,
                                    ![c].err = Valid(identity)]
            /\ UNCHANGED acm
       ELSE /\ acm' = [acm EXCEPT ![c] = res.cm]
            /\ pc' = [pc EXCEPT ![c] = IF res.err = "" THEN "mutated" ELSE "returned"]
            /\ call' = [call EXCEPT ![c].ran = @ \o <<"parse", "identity", "mutate">>,
                                    ![c].err = res.err]
    /\ UNCHANGED <<cm, last, prev, remote, strict, script>>

\* RemoveNodeGroup: iam.Parse, NewFromClientSet
RemoveNodeGroupFetch(c, raw) ==
    /\ pc[c] = "idle"
    /\ IF Parse(raw).err # ""
       THEN /\ pc' = [pc EXCEPT ![c] = "returned"]
            /\ call' = [call EXCEPT ![c].op = "RemoveNodeGroup", ![c].arn = raw,
                                    ![c].ran = <<"parse">>,
                                    ![c].err = Parse(raw).err]
            /\ UNCHANGED acm
       ELSE FetchStep(c, "RemoveNodeGroup", raw, <<"parse">>)
    /\ UNCHANGED <<cm, last, prev, remote, strict, script>>

\* RemoveNodeGroup: acm.RemoveIdentity(arn, false)
RemoveNodeGroupRemoveIdentity(c) ==
    /\ pc[c] = "fetched"
    /\ call[c].op = "RemoveNodeGroup"
    /\ LET res == RemoveIdentityOp(acm[c], Parse(call[c].arn), FALSE) IN
         /\ acm' = [acm EXCEPT ![c] = res.cm]
         /\ Step(c, "mutate", res.err, "mutated")
    /\ UNCHANGED <<cm, last, prev, remote, strict, script>>

\* AddNodeGroup and RemoveNodeGroup: acm.Save()
NodeGroupSave(c) ==
    /\ pc[c] = "mutated"
    /\ \E fault \in BOOLEAN :
         LET res == SaveOp(acm[c], remote, strict, fault) IN
         /\ remote' = res.remote
         /\ acm' = [acm EXCEPT ![c] = res.obj]
         /\ pc' = [pc EXCEPT ![c] = IF res.err = "" THEN "done" ELSE "returned"]
         /\ call' = [call EXCEPT ![c] =
               [@ EXCEPT !.ran = Append(call[c].ran, "save"),
                         !.err = res.err,
                         !.writes = call[c].writes + 1,
                         !.kind = res.kind]]
    /\ UNCHANGED <<cm, last, prev, strict, script>>

NextNodeGroup ==
    \E c \in Callers :
        \/ \E raw \in InstanceRoleARNs : AddNodeGroupFetch(c, raw)
        \/ AddNodeGroupAddIdentity(c)
        \/ \E raw \in InstanceRoleARNs : RemoveNodeGroupFetch(c, raw)
        \/ RemoveNodeGroupRemoveIdentity(c)
        \/ NodeGroupSave(c)

SpecNodeGroup == InitNodeGroup /\ [][NextNodeGroup]_vars

(***************************************************************************)
(* SpecE2E: one caller, alone, from a cluster without the ConfigMap:       *)
(* fetch, AddIdentity(r), Save, fetch, RemoveIdentity(principal(r),        *)
(* false), Save, fetch.  A call that fails ends the run.                   *)
(***************************************************************************)
E2EIdentities ==
    {NewIdentity(raw, username, groups) :
        raw \in {NodesRoleARN, AdminRoleARN},
        username \in {RoleNodeGroupUsername, "admin"},
        groups \in {RoleNodeGroupGroups, <<"system:masters">>, <<>>}}

Halted == "halted"
Running == "running"

InitE2E ==
    /\ remote = NoRemote
    /\ strict \in BOOLEAN
    /\ acm = [c \in Callers |-> NewCM]
    /\ pc = [c \in Callers |-> "idle"]
    /\ call = [c \in Callers |-> NoCalls]
    /\ cm = NewCM
    /\ last = NoCall(NewCM)
    /\ prev = NoCall(NewCM)
    /\ \E r \in E2EIdentities :
         script = [state |-> Running, step |-> 0, identity |-> r, kinds |-> <<>>]

Advance(err, kinds) ==
    script' = [script EXCEPT !.state = IF err = "" THEN Running ELSE Halted,
                             !.step = @ + 1,
                             !.kinds = kinds]

\* steps 0, 3 and 6: NewFromClientSet
E2EFetch ==
    /\ script.state = Running
    /\ script.step \in {0, 3, 6}
    /\ \E fault \in BOOLEAN, nilOnErr \in BOOLEAN :
         LET res == NewFromClientSetOp(remote, fault, nilOnErr) IN
         /\ acm' = [acm EXCEPT !["c1"] = res.cm]
         /\ Advance(res.err, script.kinds)
    /\ UNCHANGED <<cm, last, prev, remote, strict, pc, call>>

\* step 1: AddIdentity(r)
E2EAddIdentity ==
    /\ script.state = Running
    /\ script.step = 1
    /\ LET res == AddIdentityOp(acm["c1"], script.identity) IN
         /\ acm' = [acm EXCEPT !["c1"] = res.cm]
         /\ Advance(res.err, script.kinds)
    /\ UNCHANGED <<cm, last, prev, remote, strict, pc, call>>

\* step 4: RemoveIdentity(principal(r), false)
E2ERemoveIdentity ==
    /\ script.state = Running
    /\ script.step = 4
    /\ LET res == RemoveIdentityOp(acm["c1"], Parse(script.identity.arn), FALSE) IN
         /\ acm' = [acm EXCEPT !["c1"] = res.cm]
         /\ Advance(res.err, script.kinds)
    /\ UNCHANGED <<cm, last, prev, remote, strict, pc, call>>

\* steps 2 and 5: Save
E2ESave ==
    /\ script.state = Running
    /\ script.step \in {2, 5}
    /\ \E fault \in BOOLEAN :
         LET res == SaveOp(acm["c1"], remote, strict, fault) IN
         /\ remote' = res.remote
         /\ acm' = [acm EXCEPT !["c1"] = res.obj]
         /\ Advance(res.err, Append(script.kinds, res.kind))
    /\ UNCHANGED <<cm, last, prev, strict, pc, call>>

NextE2E ==
    \/ E2EFetch
    \/ E2EAddIdentity
    \/ E2ERemoveIdentity
    \/ E2ESave

SpecE2E == InitE2E /\ [][NextE2E]_vars

(***************************************************************************)
(* What the claims about the mutations speak of.                           *)
(***************************************************************************)
IdentityList(c) == Identities(c).val

\* the record's principal parses and its canonical string is that of raw
HasPrincipal(identity, raw) ==
    /\ IdentityARN(identity).err = ""
    /\ String(IdentityARN(identity)) = String(Parse(raw))

MatchesIn(ids, raw) == {i \in 1..Len(ids) : HasPrincipal(ids[i], raw)}

FirstOf(S) == CHOOSE i \in S : \A j \in S : i <= j

IsRole(identity) == Valid(identity) = "" /\ Role(IdentityARN(identity))
IsUser(identity) == Valid(identity) = "" /\ User(IdentityARN(identity))

RoleRecords(ids) == SelectIdx(ids, {i \in 1..Len(ids) : IsRole(ids[i])}, 1)
UserRecords(ids) == SelectIdx(ids, {i \in 1..Len(ids) : IsUser(ids[i])}, 1)

\* a snapshot in the sense of the data model: both keys decode, mapRoles holds
\* valid role records only and mapUsers valid user records only
WellFormed(c) ==
    LET roles == Unmarshal(c.Data[rolesData])
        users == Unmarshal(c.Data[usersData])
    IN
    /\ roles.err = ""
    /\ users.err = ""
    /\ \A i \in 1..Len(roles.val) : IsRole(roles.val[i])
    /\ \A i \in 1..Len(users.val) : IsUser(users.val[i])

RemovedSingle == last.op = "RemoveIdentity" /\ ~last.all
RemovedAll == last.op = "RemoveIdentity" /\ last.all
Added == last.op = "AddIdentity"

(***************************************************************************)
(* C5.  On a well-formed snapshot, RemoveIdentity(p, all = false) removes  *)
(* exactly the first record with principal p in Identities() order and     *)
(* keeps every other record (later records with principal p too) in the    *)
(* same order; with no record of principal p it returns the not-found      *)
(* error.                                                                  *)
(***************************************************************************)
C5_RemoveFirstMatch ==
    (RemovedSingle /\ WellFormed(last.before)) =>
        LET ids == IdentityList(last.before)
            matches == MatchesIn(ids, last.arn)
        IN
        IF matches = {}
        THEN last.err = "instance identity ARN not found in auth ConfigMap"
        ELSE /\ last.err = ""
             /\ IdentityList(cm) =
                    SelectIdx(ids, (1..Len(ids)) \ {FirstOf(matches)}, 1)

\* the first of two different records of one principal was removed, the other kept
C5_Witness ==
    /\ RemovedSingle
    /\ WellFormed(last.before)
    /\ last.err = ""
    /\ LET ids == IdentityList(last.before)
           matches == MatchesIn(ids, last.arn)
       IN /\ Cardinality(matches) >= 2
          /\ \E j \in matches : ids[j] # ids[FirstOf(matches)]
          /\ \E k \in 1..Len(ids) : k \notin matches /\ k > FirstOf(matches)

(***************************************************************************)
(* C6.  On a well-formed snapshot, RemoveIdentity(p, all = true) succeeds, *)
(* removes every record with principal p and keeps the others in order;    *)
(* with no record of principal p (the empty snapshot included) the         *)
(* identity list is unchanged.                                             *)
(***************************************************************************)
C6_RemoveAllMatches ==
    (RemovedAll /\ WellFormed(last.before)) =>
        LET ids == IdentityList(last.before)
            matches == MatchesIn(ids, last.arn)
        IN
        /\ last.err = ""
        /\ IdentityList(cm) = SelectIdx(ids, (1..Len(ids)) \ matches, 1)
        /\ matches = {} => IdentityList(cm) = ids

\* all = true on the empty snapshot: no error, the keys are written, the list is the same
C6_Witness ==
    /\ RemovedAll
    /\ last.err = ""
    /\ last.before.Data[rolesData] = EmptyText
    /\ last.before.Data[usersData] = EmptyText
    /\ cm.Data[rolesData] # EmptyText
    /\ IdentityList(cm) = <<>>

(***************************************************************************)
(* C7.  A not-found failure does not mutate: RemoveIdentity(p, all=false)  *)
(* with no record of principal p, and RemoveAccount(a) with a not in the   *)
(* account list, return an error and leave the held ConfigMap (the three   *)
(* keys and the UID) as it was.                                            *)
(***************************************************************************)
C7_NotFoundLeavesState ==
    /\ (RemovedSingle /\ MatchesIn(IdentityList(last.before), last.arn) = {}) =>
           (last.err # "" /\ cm = last.before)
    /\ (last.op = "RemoveAccount"
          /\ \A i \in 1..Len(accounts(last.before).val) :
                 accounts(last.before).val[i] # last.account) =>
           (last.err # "" /\ cm = last.before)

\* the not-found error of RemoveIdentity on a store that holds other records
C7_Witness ==
    /\ RemovedSingle
    /\ last.err = "instance identity ARN not found in auth ConfigMap"
    /\ Len(IdentityList(last.before)) >= 2
    /\ cm = last.before

(***************************************************************************)
(* C8 as stated.  After a successful AddIdentity(r), Identities() is the   *)
(* list before the call followed by r as its last element.                 *)
(***************************************************************************)
C8_AppendsLast ==
    (Added /\ last.err = "") =>
        IdentityList(cm) = Append(IdentityList(last.before), last.identity)

(***************************************************************************)
(* C8 amended.  After a successful AddIdentity(r), Identities() is the     *)
(* role records of the list before the call, then r if r is a role, then   *)
(* the user records of the list before the call, then r if r is a user:    *)
(* r is the last record of its class, not of the whole list.               *)
(***************************************************************************)
C8_AppendsLastOfClass ==
    (Added /\ last.err = "") =>
        LET ids == IdentityList(last.before)
            r == last.identity
        IN
        IdentityList(cm) =
            RoleRecords(ids) \o (IF IsRole(r) THEN <<r>> ELSE <<>>)
              \o UserRecords(ids) \o (IF IsUser(r) THEN <<r>> ELSE <<>>)

\* a role added to a well-formed snapshot that holds a user: r is not the last element
C8_Witness ==
    /\ Added
    /\ last.err = ""
    /\ WellFormed(last.before)
    /\ IsRole(last.identity)
    /\ UserRecords(IdentityList(last.before)) # <<>>
    /\ RoleRecords(IdentityList(last.before)) # <<>>
    /\ IdentityList(cm)[Len(IdentityList(cm))] # last.identity

(***************************************************************************)
(* C9.  AddIdentity suppresses no duplicate: a successful AddIdentity of a *)
(* record with principal p makes the lookup by p return exactly one more   *)
(* record, also when p was already mapped, and the lookup by any other     *)
(* principal return as many records as before.                             *)
(***************************************************************************)
\* MapIdentities.Get(arn): every record whose ARN is arn
Get(ids, raw) == SelectIdx(ids, {i \in 1..Len(ids) : ids[i].arn = raw}, 1)

KnownARNs == {NodesRoleARN, AdminRoleARN, BobUserARN, DevGroupARN, ShortARN}

C9_AddIsAdditive ==
    (Added /\ last.err = "") =>
        \A raw \in KnownARNs :
            Len(Get(IdentityList(cm), raw)) =
                Len(Get(IdentityList(last.before), raw))
                  + (IF raw = last.identity.arn THEN 1 ELSE 0)

\* the principal was already mapped twice and is now mapped three times
C9_Witness ==
    /\ Added
    /\ last.err = ""
    /\ Len(Get(IdentityList(last.before), last.identity.arn)) = 2
    /\ Len(Get(IdentityList(cm), last.identity.arn)) = 3

(***************************************************************************)
(* C10.  Round trip: on a well-formed snapshot s and a valid record r      *)
(* whose principal does not occur in s, AddIdentity(r) followed by         *)
(* RemoveIdentity(principal(r), all = false) succeeds and Identities() is  *)
(* again the identity list of s.                                           *)
(***************************************************************************)
RoundTrip ==
    /\ prev.op = "AddIdentity"
    /\ Valid(prev.identity) = ""
    /\ WellFormed(prev.before)
    /\ MatchesIn(IdentityList(prev.before), prev.identity.arn) = {}
    /\ RemovedSingle
    /\ last.arn = prev.identity.arn

C10_AddThenRemoveRestores ==
    RoundTrip =>
        /\ prev.err = ""
        /\ last.err = ""
        /\ IdentityList(cm) = IdentityList(prev.before)

\* a role went in before the stored user and came out again
C10_Witness ==
    /\ RoundTrip
    /\ last.err = ""
    /\ IsRole(prev.identity)
    /\ RoleRecords(IdentityList(prev.before)) # <<>>
    /\ UserRecords(IdentityList(prev.before)) # <<>>
    /\ IdentityList(last.before) # Append(IdentityList(prev.before), prev.identity)

(***************************************************************************)
(* C11.  After every successful AddIdentity or RemoveIdentity, whatever    *)
(* the two keys held before (records under the wrong key, records that are *)
(* neither), every record under mapRoles is a role and every record under  *)
(* mapUsers is a user.                                                     *)
(***************************************************************************)
StoredUnder(c, key) == Unmarshal(c.Data[key]).val

ChangedIdentities == last.op \in {"AddIdentity", "RemoveIdentity"}

C11_SplitIsRecomputed ==
    (ChangedIdentities /\ last.err = "") =>
        /\ \A i \in 1..Len(StoredUnder(cm, rolesData)) :
               IsRole(StoredUnder(cm, rolesData)[i])
        /\ \A i \in 1..Len(StoredUnder(cm, usersData)) :
               IsUser(StoredUnder(cm, usersData)[i])

\* a role that was stored under mapUsers is now under mapRoles
C11_Witness ==
    /\ ChangedIdentities
    /\ last.err = ""
    /\ \E i \in 1..Len(StoredUnder(last.before, usersData)) :
         /\ IsRole(StoredUnder(last.before, usersData)[i])
         /\ \E j \in 1..Len(StoredUnder(cm, rolesData)) :
                StoredUnder(cm, rolesData)[j] = StoredUnder(last.before, usersData)[i]
         /\ \A j \in 1..Len(StoredUnder(cm, usersData)) :
                StoredUnder(cm, usersData)[j] # StoredUnder(last.before, usersData)[i]

(***************************************************************************)
(* C15.  Whenever both keys decode, Identities() succeeds and returns the  *)
(* records of mapRoles followed by the records of mapUsers, each group as  *)
(* stored (same order, same duplicates); a key that is missing or empty    *)
(* contributes no record and no error.                                     *)
(***************************************************************************)
C15_RolesThenUsers ==
    LET roles == cm.Data[rolesData]
        users == cm.Data[usersData]
    IN
    (roles.kind # "garbage" /\ users.kind # "garbage") =>
        /\ Identities(cm).err = ""
        /\ Identities(cm).val =
               (IF roles.kind = "seq" THEN roles.items ELSE <<>>)
                 \o (IF users.kind = "seq" THEN users.items ELSE <<>>)

\* mapRoles holds a user before a role, mapUsers is missing: the list is mapRoles as stored
C15_Witness ==
    /\ cm.Data[usersData].kind = "empty"
    /\ cm.Data[rolesData].kind = "seq"
    /\ Len(cm.Data[rolesData].items) = 2
    /\ IsUser(cm.Data[rolesData].items[1])
    /\ IsRole(cm.Data[rolesData].items[2])
    /\ Identities(cm).err = ""
    /\ Identities(cm).val = cm.Data[rolesData].items

(***************************************************************************)
(* C16.  Classification follows the resource type, which is the sixth      *)
(* colon portion up to its first "/": an ARN of six or more portions is a  *)
(* role exactly when its resource type is "role" and a user exactly when   *)
(* it is "user", in the form type/resource and in the form type:resource;  *)
(* an ARN of fewer than six portions is neither.                           *)
(***************************************************************************)
C16_ClassifiesByResourceType ==
    script.asked =>
        LET portions == Split(script.raw, ":") IN
        IF Len(portions) < 6
        THEN ~script.role /\ ~script.user
        ELSE LET type == Split(portions[6], "/")[1] IN
             /\ script.role <=> type = <<"role">>
             /\ script.user <=> type = <<"user">>

(***************************************************************************)
(* C19.  A record that is neither a role nor a user (its principal does    *)
(* not parse, or has another resource type) is fatal when the identity     *)
(* list is written back: when AddIdentity or RemoveIdentity would write a  *)
(* list that holds such a record, it returns an error and leaves the       *)
(* ConfigMap as it was; and when it succeeds, every record of the list     *)
(* before the call, but those it was asked to remove, is still stored.     *)
(***************************************************************************)
Unclassifiable(identity) == ~IsRole(identity) /\ ~IsUser(identity)

\* the records of the list before the call that the call is not asked to remove
Kept ==
    LET ids == IdentityList(last.before) IN
    {i \in 1..Len(ids) :
        last.op = "RemoveIdentity" => ~HasPrincipal(ids[i], last.arn)}

ChangedAccounts == last.op \in {"AddAccount", "RemoveAccount"}

C22_Frame ==
    /\ ChangedIdentities =>
           cm.Data[accountsData] = last.before.Data[accountsData]
    /\ ChangedAccounts =>
           /\ cm.Data[rolesData] = last.before.Data[rolesData]
           /\ cm.Data[usersData] = last.before.Data[usersData]
    /\ (ChangedIdentities \/ ChangedAccounts) => cm.meta = last.before.meta

\* an account went into a fetched store that holds a role and a user
C22_Witness ==
    /\ last.op = "AddAccount"
    /\ last.err = ""
    /\ cm.Data[accountsData] # last.before.Data[accountsData]
    /\ cm.meta.UID # ""
    /\ cm.Data[rolesData].kind = "seq"
    /\ Len(cm.Data[rolesData].items) >= 1
    /\ cm.Data[usersData].kind = "seq"
    /\ Len(cm.Data[usersData].items) >= 1

(***************************************************************************)
(* C23.  A failing mutation is all or nothing: whenever AddIdentity or     *)
(* RemoveIdentity returns an error (a key does not decode, the record      *)
(* handed to AddIdentity is invalid, a stored record does not parse or is  *)
(* neither role nor user, nothing to remove), mapRoles and mapUsers hold   *)
(* the text they held before the call.                                     *)
(***************************************************************************)
C23_FailureWritesNothing ==
    (ChangedIdentities /\ last.err # "") =>
        /\ cm.Data[rolesData] = last.before.Data[rolesData]
        /\ cm.Data[usersData] = last.before.Data[usersData]

\* AddIdentity of a valid record failed on a stored group that comes after stored roles
C23_Witness ==
    /\ Added
    /\ Valid(last.identity) = ""
    /\ Identities(last.before).err = ""
    /\ last.err = "cannot determine if it refers to a user or role"
    /\ IsRole(IdentityList(last.before)[1])
    /\ cm.Data[rolesData] = last.before.Data[rolesData]
    /\ cm.Data[usersData] = last.before.Data[usersData]

(***************************************************************************)
(* What the claims about the accounts speak of.                            *)
(***************************************************************************)
AccountList(c) == accounts(c).val

Decodes(c) == accounts(c).err = ""

ElemsOf(s) == {s[i] : i \in 1..Len(s)}

\* ascending lexical order without duplicates
Normalized(s) == \A i, j \in 1..Len(s) : i < j => LexLess(s[i], s[j])

\* s without every occurrence of a, the rest as it was
RECURSIVE Without(_, _)
Without(s, a) ==
    IF Len(s) = 0 THEN <<>>
    ELSE (IF Head(s) = a THEN <<>> ELSE <<Head(s)>>) \o Without(Tail(s), a)

AddedAccount == last.op = "AddAccount"
RemovedAccount == last.op = "RemoveAccount"

(***************************************************************************)
(* C12.  AddAccount(a) on any stored list that decodes (any order, with or *)
(* without duplicates) succeeds and stores a list that holds a, holds      *)
(* exactly the accounts of the list before and a, and is in ascending      *)
(* lexical order without duplicates; AddAccount(a) a second time leaves    *)
(* the ConfigMap as the first call left it; and AddAccount of 100 and then *)
(* of 200 on the list <<300>> stores <<100, 200, 300>>.                    *)
(***************************************************************************)
C12_AddAccountNormalizes ==
    /\ (AddedAccount /\ Decodes(last.before)) =>
           /\ last.err = ""
           /\ ElemsOf(AccountList(cm)) =
                  ElemsOf(AccountList(last.before)) \cup {last.account}
           /\ Normalized(AccountList(cm))
    /\ (AddedAccount /\ prev.op = "AddAccount" /\ prev.err = ""
          /\ prev.account = last.account) =>
           (last.err = "" /\ cm = last.before)
    /\ (AddedAccount /\ last.account = Account200
          /\ prev.op = "AddAccount" /\ prev.account = Account100
          /\ Decodes(prev.before) /\ AccountList(prev.before) = <<Account300>>) =>
           AccountList(cm) = <<Account100, Account200, Account300>>

\* a new account went into a list that was out of order and held an account twice
C12_Witness ==
    /\ AddedAccount
    /\ last.err = ""
    /\ Decodes(last.before)
    /\ last.account \notin ElemsOf(AccountList(last.before))
    /\ ~Normalized(AccountList(last.before))
    /\ Cardinality(ElemsOf(AccountList(last.before))) < Len(AccountList(last.before))
    /\ Len(AccountList(cm)) >= 3

(***************************************************************************)
(* C13 as stated.  After every successful AddAccount or RemoveAccount,     *)
(* from any stored list that decodes, the stored account list is in        *)
(* ascending lexical order without duplicates.                             *)
(***************************************************************************)
C13_NormalizedOnEveryWrite ==
    ((AddedAccount \/ RemovedAccount) /\ last.err = "") =>
        Normalized(AccountList(cm))

(***************************************************************************)
(* C13 amended.  After every successful AddAccount, from any stored list   *)
(* that decodes, the stored account list is in ascending lexical order     *)
(* without duplicates; after a successful RemoveAccount it is so when the  *)
(* list before the call was (RemoveAccount keeps the order and the         *)
(* duplicates of what remains).                                            *)
(***************************************************************************)
C13_NormalizedOnWrite ==
    /\ (AddedAccount /\ last.err = "") => Normalized(AccountList(cm))
    /\ (RemovedAccount /\ last.err = "" /\ Normalized(AccountList(last.before))) =>
           Normalized(AccountList(cm))

\* an account was removed from the middle of a normalized list of three
C13_Witness ==
    /\ RemovedAccount
    /\ last.err = ""
    /\ Normalized(AccountList(last.before))
    /\ Len(AccountList(last.before)) = 3
    /\ last.account = AccountList(last.before)[2]
    /\ Len(AccountList(cm)) = 2

(***************************************************************************)
(* C14 as stated.  For every stored account list that decodes and every    *)
(* account a, AddAccount(a) followed by RemoveAccount(a) succeeds and      *)
(* leaves the set of accounts the store had before the two calls.          *)
(***************************************************************************)
AccountRoundTrip ==
    /\ prev.op = "AddAccount"
    /\ Decodes(prev.before)
    /\ RemovedAccount
    /\ last.account = prev.account

C14_AccountRoundTrip ==
    AccountRoundTrip =>
        /\ prev.err = ""
        /\ last.err = ""
        /\ ElemsOf(AccountList(cm)) = ElemsOf(AccountList(prev.before))

(***************************************************************************)
(* C14 amended.  The same, for an account a that the store did not hold    *)
(* before the two calls.                                                   *)
(***************************************************************************)
C14_NewAccountRoundTrip ==
    (AccountRoundTrip /\ prev.account \notin ElemsOf(AccountList(prev.before))) =>
        /\ prev.err = ""
        /\ last.err = ""
        /\ ElemsOf(AccountList(cm)) = ElemsOf(AccountList(prev.before))

\* the set is restored, the list is not: it was out of order before the two calls
C14_Witness ==
    /\ AccountRoundTrip
    /\ last.err = ""
    /\ prev.account \notin ElemsOf(AccountList(prev.before))
    /\ Len(AccountList(prev.before)) >= 2
    /\ AccountList(cm) # AccountList(prev.before)
    /\ ElemsOf(AccountList(cm)) = ElemsOf(AccountList(prev.before))

(***************************************************************************)
(* C20.  RemoveAccount(a) on a stored list that holds a succeeds, removes  *)
(* every occurrence of a and leaves the other accounts as they were, in    *)
(* the same order and with their duplicates; a is no longer in the stored  *)
(* list.                                                                   *)
(***************************************************************************)
C20_RemoveAccountKeepsOrder ==
    (RemovedAccount /\ Decodes(last.before)
       /\ last.account \in ElemsOf(AccountList(last.before))) =>
        /\ last.err = ""
        /\ AccountList(cm) = Without(AccountList(last.before), last.account)
        /\ last.account \notin ElemsOf(AccountList(cm))

\* a was there twice, and what remains is out of order
C20_Witness ==
    /\ RemovedAccount
    /\ last.err = ""
    /\ Len(AccountList(last.before)) = Len(AccountList(cm)) + 2
    /\ Len(AccountList(cm)) = 2
    /\ LexLess(AccountList(cm)[2], AccountList(cm)[1])

(***************************************************************************)
(* What the claims about Save speak of.                                    *)
(***************************************************************************)
Saved(c) == pc[c] = "saved"

RemoteList == IF remote.exists THEN IdentityList(remote.cm) ELSE <<>>

Other(c) == CHOOSE d \in Callers : d # c

\* both callers ran fetch, AddIdentity, Save, once, and both Saves returned success
BothAddedAndSaved ==
    \A c \in Callers :
        Saved(c) /\ call[c].did = "add" /\ call[c].saves = 1 /\ call[c].err = ""

\* no caller did anything but fetch, AddIdentity and one Save
AddersOnly ==
    \A c \in Callers : call[c].did \in {"", "add"} /\ call[c].saves <= 1

(***************************************************************************)
(* C1.  Save issues a create when the held UID is empty and an update      *)
(* otherwise; after a successful create the store holds the UID the        *)
(* cluster returned; and every later Save on the same store is an update,  *)
(* never a second create.                                                  *)
(***************************************************************************)
C1_SaveByMarker ==
    \A c \in Callers :
        /\ call[c].kind # "none" =>
               (call[c].kind = "create" <=> call[c].uidBefore = "")
        /\ (Saved(c) /\ call[c].kind = "create" /\ call[c].err = "") =>
               (acm[c].meta.UID # "" /\ acm[c].meta.UID = remote.cm.meta.UID)
        /\ call[c].createdBefore => call[c].kind = "update"

(***************************************************************************)
(* C2.  End to end, one caller alone, from a cluster without the           *)
(* ConfigMap: after fetch, AddIdentity(r), Save, that Save was a create    *)
(* and the next fetch gives Identities() = <<r>>; after RemoveIdentity     *)
(* (principal(r), false), Save, that Save was an update and the next       *)
(* fetch gives an empty identity list.                                     *)
(***************************************************************************)
Reached(n) == script.state = Running /\ script.step = n

C2_EndToEnd ==
    /\ script.step >= 3 => script.kinds[1] = "create"
    /\ Reached(4) => IdentityList(acm["c1"]) = <<script.identity>>
    /\ script.step >= 6 => script.kinds = <<"create", "update">>
    /\ Reached(7) => IdentityList(acm["c1"]) = <<>>

\* the run came to its end: the record went in with a create and out with an update
C2_Witness ==
    /\ Reached(7)
    /\ script.kinds = <<"create", "update">>
    /\ remote.exists
    /\ RemoteList = <<>>

(***************************************************************************)
(* C3.  A transport that does not reject stale writes never answers a Save *)
(* with a conflict; when both callers ran fetch, AddIdentity, Save and     *)
(* both Saves succeeded, a caller that saved from an outdated version has  *)
(* overwritten the cluster's ConfigMap with its own content, and the       *)
(* identity the other caller added is no longer there.                     *)
(***************************************************************************)
Count(ids, identity) == Len(Get(ids, identity.arn))

C3_StaleSaveOverwrites ==
    ~strict =>
        \A c \in Callers :
            /\ call[c].err # "conflict"
            /\ (BothAddedAndSaved /\ call[c].stale) =>
                   /\ remote.cm = acm[c]
                   /\ Count(RemoteList, Mine(Other(c)))
                        = Count(IdentityList(acm[Other(c)]), Mine(Other(c))) - 1

\* both Saves were updates of the existing ConfigMap and succeeded; one identity is there,
\* the other is not
C3_Witness ==
    /\ ~strict
    /\ BothAddedAndSaved
    /\ \A c \in Callers : call[c].kind = "update"
    /\ \E c \in Callers :
         /\ Count(RemoteList, Mine(c)) = 1
         /\ Count(RemoteList, Mine(Other(c))) = 0

(***************************************************************************)
(* C4.  With a transport that rejects stale writes, and callers that each  *)
(* run fetch, AddIdentity, Save: a caller whose Save returned success has  *)
(* everything it saved, its own identity included, in the cluster's        *)
(* ConfigMap from then on; a caller whose identity did not get there got   *)
(* an error.                                                               *)
(***************************************************************************)
C4_NoSilentLoss ==
    (strict /\ AddersOnly) =>
        \A c \in Callers :
            (Saved(c) /\ call[c].err = "") =>
                /\ remote.exists
                /\ Count(RemoteList, Mine(c)) >= 1
                /\ \A raw \in KnownARNs :
                       Len(Get(RemoteList, raw)) >= Len(Get(IdentityList(acm[c]), raw))

\* both callers saved from the same version: one succeeded, the other got the conflict
C4_Witness ==
    /\ strict
    /\ AddersOnly
    /\ \A c \in Callers : Saved(c) /\ call[c].did = "add"
    /\ \E c \in Callers :
         /\ call[c].err = ""
         /\ call[Other(c)].err = "conflict"
         /\ Count(RemoteList, Mine(c)) = 1
         /\ Count(RemoteList, Mine(Other(c))) = 0

(***************************************************************************)
(* C21.  Mutations are local until Save: the ConfigMap in the cluster      *)
(* changes only in a step that is a Save of some caller, which returned    *)
(* success, and it then holds the name and the three keys that this caller *)
(* held when it called Save.  A fetch, AddIdentity, RemoveIdentity,        *)
(* AddAccount or RemoveAccount, and a Save that fails, leave the cluster's *)
(* ConfigMap as it is.                                                     *)
(***************************************************************************)
SaveReturned(c) == call'[c].saves = call[c].saves + 1

C21_LocalUntilSave ==
    [][remote' # remote =>
          \E c \in Callers :
              /\ SaveReturned(c)
              /\ call'[c].err = ""
              /\ remote'.exists
              /\ remote'.cm.Data = acm[c].Data
              /\ remote'.cm.meta.Name = acm[c].meta.Name]_vars

\* one caller has saved its account; the other holds a mutation that the
\* cluster does not have
C21_Witness ==
    \E c \in Callers :
        /\ Saved(c)
        /\ call[c].err = ""
        /\ call[c].did = "add account"
        /\ remote.exists
        /\ remote.cm = acm[c]
        /\ pc[Other(c)] = "mutated"
        /\ call[Other(c)].did = "add"
        /\ IdentityList(acm[Other(c)]) # IdentityList(remote.cm)

(***************************************************************************)
(* C24.  A failed Save leaves the held ConfigMap intact: when the create   *)
(* or update of a Save returns an error, the caller holds after the Save   *)
(* the ConfigMap (the three keys and the UID) it held before it.           *)
(***************************************************************************)
C24_FailedSaveKeepsHeld ==
    [][\A c \in Callers :
          (SaveReturned(c) /\ call'[c].err # "") => acm'[c] = acm[c]]_vars

(***************************************************************************)
(* What the claims about AddNodeGroup and RemoveNodeGroup speak of.        *)
(***************************************************************************)
IsPrefix(s, full) == Len(s) <= Len(full) /\ s = SubSeq(full, 1, Len(s))

Ran(c, stage) == stage \in ElemsOf(call[c].ran)

\* the call returned an error and issued neither a create nor an update
ReturnedUnwritten(c) ==
    pc[c] = "returned" /\ call[c].err # "" /\ call[c].writes = 0

(***************************************************************************)
(* C17.  AddNodeGroup and RemoveNodeGroup run their steps in the order of  *)
(* fetch, mutate, save, and issue at most one write, as their last step.   *)
(* When the ARN does not parse or is neither role nor user, when the Get   *)
(* of the fetch fails with anything but not-found, when the fetched keys   *)
(* do not decode, or when RemoveNodeGroup finds no mapping of the role,    *)
(* the call returns an error and has issued no create and no update.       *)
(***************************************************************************)
C17_WritesOnceAtTheEnd ==
    \A c \in Callers :
        LET k == call[c] IN
        /\ k.op # "" => IsPrefix(k.ran, StepsOf(k.op))
        /\ k.writes = (IF Ran(c, "save") THEN 1 ELSE 0)
        /\ pc[c] = "done" => (k.err = "" /\ k.ran = StepsOf(k.op))
        /\ pc[c] = "returned" => k.err # ""
        /\ (Ran(c, "parse") /\ Parse(k.arn).err # "") => ReturnedUnwritten(c)
        /\ (Ran(c, "identity")
              /\ Valid(NewIdentity(k.arn, RoleNodeGroupUsername, RoleNodeGroupGroups)) # "")
               => ReturnedUnwritten(c)
        /\ (Ran(c, "fetch") /\ k.getErr \notin {"", "not found"}) => ReturnedUnwritten(c)
        /\ (Ran(c, "mutate") /\ Identities(k.fetched).err # "") => ReturnedUnwritten(c)
        /\ (Ran(c, "mutate") /\ k.op = "RemoveNodeGroup"
              /\ Identities(k.fetched).err = ""
              /\ MatchesIn(IdentityList(k.fetched), k.arn) = {})
               => ReturnedUnwritten(c)

\* RemoveNodeGroup for a role that is not in the ConfigMap, which holds other records
C17_Witness ==
    \E c \in Callers :
        /\ call[c].op = "RemoveNodeGroup"
        /\ call[c].ran = <<"parse", "fetch", "mutate">>
        /\ call[c].err = "instance identity ARN not found in auth ConfigMap"
        /\ ReturnedUnwritten(c)
        /\ call[c].found
        /\ IdentityList(call[c].fetched) # <<>>
        /\ remote.exists
        /\ remote.cm = call[c].fetched

(***************************************************************************)
(* C18.  A fetch that finds no ConfigMap gives, without error, an empty    *)
(* store with no UID; a fetch that finds a ConfigMap, whatever its data    *)
(* (none at all included), gives a store with that ConfigMap's UID; so the *)
(* Save of the call issues a create exactly when the fetch found no        *)
(* ConfigMap.                                                              *)
(***************************************************************************)
C18_CreateIffAbsent ==
    \A c \in Callers :
        LET k == call[c] IN
        /\ (Ran(c, "fetch") /\ k.getErr = "not found") =>
               /\ ~(pc[c] = "returned" /\ k.ran[Len(k.ran)] = "fetch")
               /\ k.fetched = NewCM
        /\ (Ran(c, "fetch") /\ k.found) => k.fetched.meta.UID # ""
        /\ k.writes >= 1 => (k.kind = "create" <=> ~k.found)

====
